---------------------------- MODULE Spec2Model ----------------------------
(***************************************************************************)
(* A model of MayaUIChanger: the settings store, the stylesheet resolver   *)
(* with its font-size rewrite, the theme picker with its debounce timer,   *)
(* the theme menu, and the drag-and-drop installer.                        *)
(*                                                                         *)
(* Text (a Python str, a file's contents) is a sequence of atoms.  An atom *)
(* is either a character the code treats specially (a quote, a backslash,  *)
(* a brace, a semicolon, a blank ...) or an opaque run of ordinary         *)
(* characters ("Maya", "12pt", "font-size:").                              *)
(***************************************************************************)
EXTENDS Integers, Sequences, FiniteSets, TLC

VARIABLES
    settingsFile,   \* theme_settings.json: whether it exists, and its text
    themeFiles,     \* the add-on directory: stylesheet file name -> file
    appStyle,       \* the application-wide stylesheet (QApplication.setStyleSheet)
    outcome,        \* how the last apply_styles call ended, and what it resolved
    browsers,       \* the ThemeBrowser dialogs created so far, in creation order
    pending,        \* the browsers whose debounce timer is running, oldest start first
    lastRequest,    \* the most recent style change the user asked for
    booted,         \* whether run() has been executed
    saved,          \* the mapping last passed to save_settings directly
    loaded,         \* what the last direct load_settings call gave
    userSetup,      \* installer: userSetup.py, whether it exists and its lines
    targetDir,      \* installer: whether scripts/MayaUIChanger exists
    installLog,     \* installer: how each install() run ended, in order
    firstSetup      \* installer: userSetup.py as it was before the first run

vars == <<settingsFile, themeFiles, appStyle, outcome, browsers, pending,
          lastRequest, booted, saved, loaded, userSetup, targetDir, installLog,
          firstSetup>>

appVars == <<appStyle, outcome, browsers, pending, lastRequest, booted>>
storeVars == <<saved, loaded>>
installVars == <<userSetup, targetDir, installLog, firstSetup>>

\* A file: whether it exists, and its text
AbsentFile == [exists |-> FALSE, text |-> <<>>]
TextFile(t) == [exists |-> TRUE, text |-> t]

\* Python's None, where an argument is a str or None
None == <<"None">>

\* What a call that may raise gives back
Returned(v) == [raised |-> FALSE, val |-> v]
Raises == [raised |-> TRUE, val |-> <<>>]

----------------------------------------------------------------------------
(* Sequences *)

RECURSIVE Flatten(_)
Flatten(ss) == IF ss = <<>> THEN <<>> ELSE Head(ss) \o Flatten(Tail(ss))

SeqsUpTo(S, n) == UNION {[1..k -> S] : k \in 0..n}

----------------------------------------------------------------------------
(* Settings store: json.dump / json.load of a dict of str -> str.          *)
(* A dict is a sequence of <<key, value>> pairs with distinct keys, in     *)
(* insertion order, as a Python dict is.                                   *)

ThemeKey == <<"selected_theme">>
FontKey == <<"font_size">>

Keys(d) == {d[i][1] : i \in 1..Len(d)}

HasKey(d, k) == k \in Keys(d)

\* dict.get(k, default)
Get(d, k, default) ==
    IF HasKey(d, k) THEN d[CHOOSE i \in 1..Len(d) : d[i][1] = k][2] ELSE default

\* d[k] = v: an existing key keeps its place, a new one goes last
Put(d, k, v) ==
    IF HasKey(d, k)
    THEN [i \in 1..Len(d) |-> IF d[i][1] = k THEN <<k, v>> ELSE d[i]]
    ELSE Append(d, <<k, v>>)

\* Python's dict equality: the same keys with the same values, in any order
AsMap(d) == [k \in Keys(d) |-> Get(d, k, None)]
DictEq(a, b) == AsMap(a) = AsMap(b)

\* json's string encoder: a quote and a backslash are escaped
EncodeAtom(c) ==
    IF c = "\"" THEN <<"\\", "\"">>
    ELSE IF c = "\\" THEN <<"\\", "\\">>
    ELSE <<c>>

EncodeStr(s) ==
    <<"\"">> \o Flatten([i \in 1..Len(s) |-> EncodeAtom(s[i])]) \o <<"\"">>

RECURSIVE DumpItems(_)
DumpItems(d) ==
    IF d = <<>> THEN <<>>
    ELSE EncodeStr(d[1][1]) \o <<":", " ">> \o EncodeStr(d[1][2])
         \o (IF Len(d) > 1 THEN <<",", " ">> ELSE <<>>)
         \o DumpItems(Tail(d))

\* json.dump(settings, f), default separators ", " and ": "
Dump(d) == <<"{">> \o DumpItems(d) \o <<"}">>

\* json.load: a parser of objects whose values are strings.  Each step
\* returns [ok, val, pos]: pos is the first atom not yet read.
Fail == [ok |-> FALSE, val |-> <<>>, pos |-> 0]

RECURSIVE SkipWs(_, _)
SkipWs(t, i) == IF i <= Len(t) /\ t[i] = " " THEN SkipWs(t, i + 1) ELSE i

\* the body of a string, from the atom after the opening quote
RECURSIVE ParseChars(_, _, _)
ParseChars(t, i, acc) ==
    IF i > Len(t) THEN Fail
    ELSE IF t[i] = "\"" THEN [ok |-> TRUE, val |-> acc, pos |-> i + 1]
    ELSE IF t[i] = "\\"
         THEN IF i + 1 <= Len(t) /\ t[i + 1] \in {"\"", "\\"}
              THEN ParseChars(t, i + 2, Append(acc, t[i + 1]))
              ELSE Fail
    ELSE ParseChars(t, i + 1, Append(acc, t[i]))

ParseStr(t, i) ==
    IF i <= Len(t) /\ t[i] = "\"" THEN ParseChars(t, i + 1, <<>>) ELSE Fail

\* the members of an object, from the first key: a string, a colon, a
\* string, then a comma and the next member, or the closing brace
RECURSIVE ParseMembers(_, _, _)
AfterValue(t, e, d) ==
    IF e > Len(t) THEN Fail
    ELSE IF t[e] = "}" THEN [ok |-> TRUE, val |-> d, pos |-> e + 1]
    ELSE IF t[e] = "," THEN ParseMembers(t, e + 1, d)
    ELSE Fail

ParseValue(t, k, v, acc) ==
    IF ~v.ok THEN Fail ELSE AfterValue(t, SkipWs(t, v.pos), Put(acc, k.val, v.val))

ParseColon(t, k, c, acc) ==
    IF ~(c <= Len(t) /\ t[c] = ":") THEN Fail
    ELSE ParseValue(t, k, ParseStr(t, SkipWs(t, c + 1)), acc)

ParseKey(t, k, acc) ==
    IF ~k.ok THEN Fail ELSE ParseColon(t, k, SkipWs(t, k.pos), acc)

ParseMembers(t, i, acc) == ParseKey(t, ParseStr(t, SkipWs(t, i)), acc)

ParseOpened(t, m) ==
    IF m <= Len(t) /\ t[m] = "}" THEN [ok |-> TRUE, val |-> <<>>, pos |-> m + 1]
    ELSE ParseMembers(t, m, <<>>)

ParseBrace(t, s) ==
    IF ~(s <= Len(t) /\ t[s] = "{") THEN Fail ELSE ParseOpened(t, SkipWs(t, s + 1))

ParseObject(t) == ParseBrace(t, SkipWs(t, 1))

\* json.load(f): the document; JSONDecodeError on anything else, trailing
\* text included
JsonDocument(t, r) ==
    IF r.ok /\ SkipWs(t, r.pos) = Len(t) + 1 THEN Returned(r.val) ELSE Raises

JsonLoad(t) == JsonDocument(t, ParseObject(t))

\* save_settings(settings): open(path, 'w') truncates, json.dump writes
SaveSettingsAppend(file, d) == TextFile(file.text \o Dump(d))
SaveSettingsResult(file, d) == TextFile(Dump(d))

\* load_settings(): {} when the file does not exist, else json.load
LoadSettingsResult(file) ==
    IF ~file.exists THEN Returned(<<>>) ELSE JsonLoad(file.text)

----------------------------------------------------------------------------
(* Stylesheet resolver: the font-size rewrite of apply_styles.             *)

Auto == <<"Auto">>

\* str.lower() of an atom, which is also how re.IGNORECASE compares
LowerAtom(a) ==
    CASE a = "QWidget" -> "qwidget"
      [] a = "Font-Size:" -> "font-size:"
      [] a = "My" -> "my"
      [] a = "QPushButton" -> "qpushbutton"
      [] a = "Maya" -> "maya"
      [] a = "Default" -> "default"
      [] a = "Blender" -> "blender"
      [] a = "Dark" -> "dark"
      [] a = "Zbrush" -> "zbrush"
      [] OTHER -> a

\* the first index j >= i with t[j] = c, or 0
RECURSIVE IndexFrom(_, _, _)
IndexFrom(t, i, c) ==
    IF i > Len(t) THEN 0
    ELSE IF t[i] = c THEN i
    ELSE IndexFrom(t, i + 1, c)

\* the literal QWidget of the block pattern, under re.IGNORECASE
MatchesAnyWord(a) == a \notin {" ", "{", "}", ";", ",", ":"}
MatchesQWidget(a) == LowerAtom(a) = "qwidget"

\* r'QWidget\s*\{[^}]+\}' tried at index i: the index of the closing brace
\* of the match, or 0 when the pattern does not match there
BlockBody(t, b, e) == IF e >= b + 2 THEN e ELSE 0

BlockBrace(t, b) ==
    IF ~(b <= Len(t) /\ t[b] = "{") THEN 0
    ELSE BlockBody(t, b, IndexFrom(t, b + 1, "}"))

BlockMatchEnd(t, i) ==
    IF ~MatchesQWidget(t[i]) THEN 0 ELSE BlockBrace(t, SkipWs(t, i + 1))

\* the literal font-size: of the declaration pattern, under re.IGNORECASE
MatchesFontSize(a) == LowerAtom(a) = "font-size:"

\* r'font-size:\s*[^;]+;' tried at index i of a block: the index of the
\* semicolon that ends the match, or 0.  \s* gives back what [^;]+ needs,
\* so the match wants one atom or more, of any kind, before the semicolon.
DeclValue(i, e) == IF e >= i + 2 THEN e ELSE 0

DeclMatchEnd(c, i) ==
    IF ~MatchesFontSize(c[i]) THEN 0 ELSE DeclValue(i, IndexFrom(c, i + 1, ";"))

\* re.sub(r'font-size:\s*[^;]+;', repl, content, flags=re.IGNORECASE)
RECURSIVE SubDecls(_, _, _)
SubDeclsAt(c, i, repl, e) ==
    IF e > 0 THEN repl \o SubDecls(c, e + 1, repl)
    ELSE <<c[i]>> \o SubDecls(c, i + 1, repl)

SubDecls(c, i, repl) ==
    IF i > Len(c) THEN <<>> ELSE SubDeclsAt(c, i, repl, DeclMatchEnd(c, i))

\* remove_font_size(match)
remove_font_size(content) == SubDecls(content, 1, <<>>)

\* 'font-size:' in content: a test that does mind the case
ContainsFontSize(content) == \E i \in 1..Len(content) : content[i] = "font-size:"

\* replace_font_size(match)
replace_font_size(content, font_size) ==
    IF ContainsFontSize(content)
    THEN SubDecls(content, 1, <<"font-size:", " ">> \o font_size \o <<";">>)
    ELSE SubSeq(content, 1, Len(content) - 1)
         \o <<" ", "font-size:", " ">> \o font_size \o <<";", " ", "}">>

\* re.sub(r'QWidget\s*\{[^}]+\}', <callback>, style_sheet, flags=re.IGNORECASE)
\* with remove_font_size as the callback when the size is 'Auto' and
\* replace_font_size when it is not
RECURSIVE SubBlocks(_, _, _)
SubBlocksAt(t, i, font_size, e) ==
    IF e > 0
    THEN (IF font_size = Auto
          THEN remove_font_size(SubSeq(t, i, e))
          ELSE replace_font_size(SubSeq(t, i, e), font_size))
         \o SubBlocks(t, e + 1, font_size)
    ELSE <<t[i]>> \o SubBlocks(t, i + 1, font_size)

SubBlocks(t, i, font_size) ==
    IF i > Len(t) THEN <<>> ELSE SubBlocksAt(t, i, font_size, BlockMatchEnd(t, i))

\* apply_styles, "Modify Font Size": the stylesheet handed to setStyleSheet
ModifyFontSize(style_sheet, font_size) == SubBlocks(style_sheet, 1, font_size)

----------------------------------------------------------------------------
(* Theme loader: apply_styles.                                             *)

MayaDefault == <<"Maya", " ", "Default">>
BlenderDark == <<"Blender", " ", "Dark">>
Zbrush == <<"Zbrush">>

\* the themes of the menu and of ThemeBrowser.themes that the model keeps
Themes == {MayaDefault, BlenderDark, Zbrush}

\* the sizes of the menu and of the picker's combo box that the model keeps
FontSizes == {Auto, <<"12pt">>}

\* f"{selected_theme.lower().replace(' ', '')}_stylesheet.qss"
RECURSIVE LowerNoSpaces(_)
LowerNoSpaces(name) ==
    IF name = <<>> THEN <<>>
    ELSE (IF Head(name) = " " THEN <<>> ELSE <<LowerAtom(Head(name))>>)
         \o LowerNoSpaces(Tail(name))

QssFile(selected_theme) == LowerNoSpaces(selected_theme) \o <<"_stylesheet.qss">>

\* os.path.exists(qss_file)
QssExists(files, qss_file) == qss_file \in DOMAIN files /\ files[qss_file].exists

\* "Resolve Theme", "Resolve Font Size": an argument left out is read from
\* the settings, and from the default when the settings have none
ResolveFromDefault(arg, settings, key, default) == IF arg = None THEN default ELSE arg
Resolve(arg, settings, key, default) ==
    IF arg = None THEN Get(settings, key, default) ELSE arg

Status(st, theme, font, argTheme, argFont) ==
    [status |-> st, theme |-> theme, font |-> font,
     argTheme |-> argTheme, argFont |-> argFont]

NoCall == Status("none", None, None, None, None)

\* the stylesheet file is missing: cmds.warning, return
MissingSavesTheme(file, style, settings, theme, font) ==
    [file |-> SaveSettingsResult(file, Put(Put(settings, ThemeKey, theme), FontKey, font)),
     style |-> style, status |-> "warned"]
Missing(file, style, settings, theme, font) ==
    [file |-> file, style |-> style, status |-> "warned"]

\* "Global QSS" and "Save Settings": the rewritten stylesheet is set on the
\* application, the two resolved values are put into the loaded settings,
\* and these are saved
SetAndSave(file, text, settings, theme, font) ==
    [file |-> SaveSettingsResult(file, Put(Put(settings, ThemeKey, theme), FontKey, font)),
     style |-> ModifyFontSize(text, font), status |-> "ok"]

\* apply_styles from "maya_script_dir = ..." on, with the settings loaded
\* and both values resolved
ApplyResolved(file, files, style, settings, theme, font) ==
    IF ~QssExists(files, QssFile(theme))
    THEN Missing(file, style, settings, theme, font)
    ELSE SetAndSave(file, files[QssFile(theme)].text, settings, theme, font)

\* apply_styles after "settings = load_settings()"
ApplyLoaded(file, files, style, r, selected_theme, font_size) ==
    IF r.raised
    THEN [file |-> file, style |-> style, status |-> "raised",
          theme |-> None, font |-> None]
    ELSE [theme |-> Resolve(selected_theme, r.val, ThemeKey, MayaDefault),
          font |-> Resolve(font_size, r.val, FontKey, Auto)]
         @@ ApplyResolved(file, files, style, r.val,
                          Resolve(selected_theme, r.val, ThemeKey, MayaDefault),
                          Resolve(font_size, r.val, FontKey, Auto))

\* apply_styles(selected_theme, font_size) run on a settings file, the theme
\* files and the application's stylesheet: the settings file and the
\* stylesheet it leaves, how it ended, and the values it resolved
ApplyStylesResult(file, files, style, selected_theme, font_size) ==
    ApplyLoaded(file, files, style, LoadSettingsResult(file), selected_theme, font_size)

\* a call of apply_styles as part of a step
ApplyStyles(selected_theme, font_size) ==
    \E a \in {ApplyStylesResult(settingsFile, themeFiles, appStyle,
                                selected_theme, font_size)} :
    /\ settingsFile' = a.file
    /\ appStyle' = a.style
    /\ outcome' = Status(a.status, a.theme, a.font, selected_theme, font_size)

----------------------------------------------------------------------------
(* Theme browser: the picker dialog and its debounce timer.                *)

\* the number of ThemeBrowser dialogs the model lets show_picker create
MaxBrowsers == 1

\* a style change the user asked for: the values asked for (None for the
\* one a menu item leaves out), who took it (0 the menu, else the browser)
\* and whether it is waiting for the timer, was served or was refused
Request(theme, font, by, state) ==
    [theme |-> theme, font |-> font, by |-> by, state |-> state]

NoRequest == Request(None, None, 0, "none")

Served(status) == IF status = "ok" THEN "served" ELSE "refused"

\* debounce_timer.start() on a single-shot timer: a running timer is
\* stopped and started again, so its timeout comes after every timeout
\* now pending (all timers have the same 200 ms interval)
Without(q, b) == SelectSeq(q, LAMBDA x : x # b)
StartAnother(q, b) == Append(q, b)
TimerStart(q, b) == Append(Without(q, b), b)

Pending(b) == \E i \in 1..Len(pending) : pending[i] = b

\* a dialog as build_ui leaves it: no current item in the list, the combo
\* box on its first entry
Built ==
    [visible |-> FALSE, theme |-> None, font |-> Auto,
     applies |-> 0, several |-> FALSE, lastCall |-> <<>>]

\* apply_update() after a change of selection.  applies, several and
\* lastCall describe the burst of changes the timer is collecting: the
\* apply_styles calls execute_update made for it, whether it holds more
\* than one change, and the arguments of the last such call.
Changed(br, wasPending) ==
    [br EXCEPT !.applies = IF wasPending THEN @ ELSE 0,
               !.several = wasPending,
               !.lastCall = IF wasPending THEN @ ELSE <<>>]

\* load_current_state(): the persisted theme and size are selected when the
\* list and the combo box have them; each selection that changes the
\* current one emits the change signal, which starts the timer
LoadCurrentState(settings) ==
    LET current_theme == Get(settings, ThemeKey, MayaDefault)
        current_font == Get(settings, FontKey, Auto)
        themed == current_theme \in Themes
        sized == current_font \in FontSizes /\ current_font # Built.font
        sel == [Built EXCEPT !.theme = IF themed THEN current_theme ELSE @,
                             !.font = IF sized THEN current_font ELSE @]
    IN [browser |-> [sel EXCEPT !.visible = TRUE, !.several = themed /\ sized],
        starts |-> themed \/ sized]

CloseAll(bs) == [i \in 1..Len(bs) |-> [bs[i] EXCEPT !.visible = FALSE]]

\* show_picker(): every ThemeBrowser child of the main window is closed,
\* which hides it and leaves its timer alone; a new one is built and shown.
\* A settings file that does not load makes the constructor raise.
ShowPicker ==
    /\ booted
    /\ Len(browsers) < MaxBrowsers
    /\ LET r == LoadSettingsResult(settingsFile)
           b == Len(browsers) + 1
       IN IF r.raised
          THEN /\ browsers' = CloseAll(browsers)
               /\ pending' = pending
          ELSE LET st == LoadCurrentState(r.val) IN
               /\ browsers' = Append(CloseAll(browsers), st.browser)
               /\ pending' = IF st.starts THEN TimerStart(pending, b) ELSE pending
    /\ UNCHANGED <<settingsFile, themeFiles, appStyle, outcome, lastRequest, booted>>
    /\ UNCHANGED <<storeVars, installVars>>

\* on_theme_changed(current, previous): the user picks another list item
SelectTheme(b, t) ==
    /\ b \in 1..Len(browsers)
    /\ browsers[b].visible
    /\ t # browsers[b].theme
    /\ browsers' = [browsers EXCEPT ![b] = [Changed(@, Pending(b)) EXCEPT !.theme = t]]
    /\ pending' = TimerStart(pending, b)
    /\ lastRequest' = Request(t, browsers[b].font, b, "waiting")
    /\ UNCHANGED <<settingsFile, themeFiles, appStyle, outcome, booted>>
    /\ UNCHANGED <<storeVars, installVars>>

\* on_font_changed(index): the user picks another size
SelectFont(b, f) ==
    /\ b \in 1..Len(browsers)
    /\ browsers[b].visible
    /\ f # browsers[b].font
    /\ browsers' = [browsers EXCEPT ![b] = [Changed(@, Pending(b)) EXCEPT !.font = f]]
    /\ pending' = TimerStart(pending, b)
    /\ lastRequest' = Request(browsers[b].theme, f, b, "waiting")
    /\ UNCHANGED <<settingsFile, themeFiles, appStyle, outcome, booted>>
    /\ UNCHANGED <<storeVars, installVars>>

\* the Close Explorer button (accept): the dialog is hidden
CloseBrowser(b) ==
    /\ b \in 1..Len(browsers)
    /\ browsers[b].visible
    /\ browsers' = [browsers EXCEPT ![b].visible = FALSE]
    /\ UNCHANGED <<settingsFile, themeFiles, appStyle, outcome, pending,
                   lastRequest, booted>>
    /\ UNCHANGED <<storeVars, installVars>>

\* the timeout of the timer started first: execute_update()
ExecuteUpdate ==
    /\ pending # <<>>
    /\ LET b == Head(pending)
           br == browsers[b]
           mine == lastRequest.by = b /\ lastRequest.state = "waiting"
       IN /\ pending' = Tail(pending)
          /\ IF br.theme = None
             THEN /\ UNCHANGED <<settingsFile, appStyle, outcome, browsers>>
                  /\ lastRequest' = IF mine THEN [lastRequest EXCEPT !.state = "refused"]
                                    ELSE lastRequest
             ELSE /\ ApplyStyles(br.theme, br.font)
                  /\ browsers' = [browsers EXCEPT
                         ![b].applies = @ + 1,
                         ![b].lastCall = <<br.theme, br.font>>]
                  /\ lastRequest' =
                         IF mine THEN [lastRequest EXCEPT !.state = Served(outcome'.status)]
                         ELSE lastRequest
    /\ UNCHANGED <<themeFiles, booted>>
    /\ UNCHANGED <<storeVars, installVars>>

----------------------------------------------------------------------------
(* Theme menu and the loader's run().                                      *)

\* make_theme_changer(theme): apply_styles(selected_theme=theme)
MenuTheme(t) ==
    /\ booted
    /\ ApplyStyles(t, None)
    /\ lastRequest' = Request(t, None, 0, Served(outcome'.status))
    /\ UNCHANGED <<themeFiles, browsers, pending, booted>>
    /\ UNCHANGED <<storeVars, installVars>>

\* make_font_changer(size): apply_styles(font_size=size)
MenuFont(f) ==
    /\ booted
    /\ ApplyStyles(None, f)
    /\ lastRequest' = Request(None, f, 0, Served(outcome'.status))
    /\ UNCHANGED <<themeFiles, browsers, pending, booted>>
    /\ UNCHANGED <<storeVars, installVars>>

\* run(): create_menu(), load_settings(), apply_styles().  The load raises
\* on a file apply_styles would raise on, and the menu is there either way.
Run ==
    /\ ~booted
    /\ booted' = TRUE
    /\ ApplyStyles(None, None)
    /\ UNCHANGED <<themeFiles, browsers, pending, lastRequest>>
    /\ UNCHANGED <<storeVars, installVars>>

----------------------------------------------------------------------------
(* The application: run() at start-up, then the menu and the picker.       *)

\* the stylesheet files of the add-on directory: two themes have theirs,
\* Zbrush has none
InstalledThemes ==
    (QssFile(MayaDefault) :> TextFile(
        <<"QWidget", " ", "{", " ", "color:", " ", "red", ";", " ",
          "font-size:", " ", "10pt", ";", " ", "}", " ",
          "QPushButton", " ", "{", " ", "font-size:", " ", "10pt", ";", " ", "}">>))
    @@ (QssFile(BlenderDark) :> TextFile(
        <<"QWidget", " ", "{", " ", "color:", " ", "blue", ";", " ", "}">>))
    @@ (QssFile(Zbrush) :> AbsentFile)

\* settings files a session may start with: none, documents this program
\* wrote earlier, and files that are not a JSON document (empty, cut short)
WrittenSettings ==
    {TextFile(Dump(d)) : d \in
        {<<>>,
         <<<<ThemeKey, BlenderDark>>, <<FontKey, <<"12pt">>>>>>,
         <<<<ThemeKey, Zbrush>>, <<FontKey, <<"12pt">>>>>>}}

MalformedSettings ==
    {TextFile(<<>>),
     TextFile(<<"{", "\"", "selected_theme", "\"", ":", " ", "\"", "Zbrush">>)}

InitialSettings == {AbsentFile} \cup WrittenSettings \cup MalformedSettings

NotSaved == [some |-> FALSE, val |-> <<>>]
NotLoaded == [called |-> FALSE, res |-> Returned(<<>>)]

StoreIdle == saved = NotSaved /\ loaded = NotLoaded

InstallIdle ==
    /\ userSetup = AbsentFile
    /\ targetDir = FALSE
    /\ installLog = <<>>
    /\ firstSetup = AbsentFile

AppStart ==
    /\ appStyle = <<>>
    /\ outcome = NoCall
    /\ browsers = <<>>
    /\ pending = <<>>
    /\ lastRequest = NoRequest

Init ==
    /\ settingsFile \in InitialSettings
    /\ themeFiles = InstalledThemes
    /\ AppStart
    /\ booted = FALSE
    /\ StoreIdle
    /\ InstallIdle

Next ==
    \/ Run
    \/ ShowPicker
    \/ \E b \in 1..MaxBrowsers, t \in Themes : SelectTheme(b, t)
    \/ \E b \in 1..MaxBrowsers, f \in FontSizes : SelectFont(b, f)
    \/ \E b \in 1..MaxBrowsers : CloseBrowser(b)
    \/ ExecuteUpdate
    \/ \E t \in Themes : MenuTheme(t)
    \/ \E f \in FontSizes : MenuFont(f)

Spec == Init /\ [][Next]_vars

----------------------------------------------------------------------------
(* The settings store on its own: save_settings and load_settings called   *)
(* directly, with apply_styles as the program's other writer of the file.  *)

\* the longest theme name, in atoms, that a saved mapping holds
MaxStrLen == 2

\* names with the characters json has to escape
Names == SeqsUpTo({"a", "\"", "\\"}, MaxStrLen)

\* the mappings over the two fields: either field may be missing, and the
\* fields come in either order
Mappings ==
    {<<>>}
    \cup {<<<<ThemeKey, n>>>> : n \in Names}
    \cup {<<<<FontKey, f>>>> : f \in FontSizes}
    \cup {<<<<ThemeKey, n>>, <<FontKey, f>>>> : n \in Names, f \in FontSizes}
    \cup {<<<<FontKey, f>>, <<ThemeKey, n>>>> : n \in Names, f \in FontSizes}

StoreInit ==
    /\ settingsFile \in InitialSettings
    /\ themeFiles = InstalledThemes
    /\ AppStart
    /\ booted = TRUE
    /\ StoreIdle
    /\ InstallIdle

\* save_settings(m)
SaveSettings(m) ==
    /\ settingsFile' = SaveSettingsResult(settingsFile, m)
    /\ saved' = [some |-> TRUE, val |-> m]
    /\ loaded' = NotLoaded
    /\ UNCHANGED <<themeFiles, appVars, installVars>>

\* load_settings()
LoadSettings ==
    /\ loaded' = [called |-> TRUE, res |-> LoadSettingsResult(settingsFile)]
    /\ UNCHANGED <<settingsFile, themeFiles, saved, appVars, installVars>>

\* a menu command in between: apply_styles writes the file when it succeeds
InterveningApply(t) ==
    /\ ApplyStyles(t, None)
    /\ saved' = NotSaved
    /\ loaded' = NotLoaded
    /\ UNCHANGED <<themeFiles, browsers, pending, lastRequest, booted, installVars>>

StoreNext ==
    \/ \E m \in Mappings : SaveSettings(m)
    \/ LoadSettings
    \/ \E t \in Themes : InterveningApply(t)

StoreSpec == StoreInit /\ [][StoreNext]_vars

----------------------------------------------------------------------------
(* The font-size rewrite over a family of theme files.                     *)

\* the most declarations a generated rule block holds
MaxDecls == 2

ColorDecl == <<"color:", " ", "red">>
FontDecl == <<"font-size:", " ", "10pt">>
FontDeclUpper == <<"Font-Size:", " ", "10pt">>

DeclLists == SeqsUpTo({ColorDecl, FontDecl, FontDeclUpper}, MaxDecls)

\* the declarations ds written out: a semicolon after each, after the last
\* one only when closed; blanks around them when spaced
RECURSIVE DeclText(_, _, _)
DeclText(ds, closed, spaced) ==
    IF ds = <<>> THEN <<>>
    ELSE Head(ds)
         \o (IF Len(ds) > 1 \/ closed THEN <<";">> ELSE <<>>)
         \o (IF spaced THEN <<" ">> ELSE <<>>)
         \o DeclText(Tail(ds), closed, spaced)

Rule(sel, ds, closed, spaced) ==
    sel \o (IF spaced THEN <<" ", "{", " ">> ELSE <<"{">>)
    \o DeclText(ds, closed, spaced) \o <<"}">>

\* QWidget, a pseudo-state of it, another class, a class whose name ends in
\* QWidget (the atoms My and QWidget side by side), a selector list
Selectors ==
    {<<"QWidget">>, <<"QWidget", ":hover">>, <<"QPushButton">>,
     <<"My", "QWidget">>, <<"QPushButton", ",", " ", "QWidget">>}

Rules ==
    {Rule(sel, ds, closed, spaced) :
        sel \in Selectors, ds \in DeclLists, closed \in BOOLEAN, spaced \in BOOLEAN}

ButtonRule == Rule(<<"QPushButton">>, <<FontDecl>>, TRUE, TRUE)

\* a theme file: one rule of the family, alone or between other rules
Sheets ==
    {before \o r \o after :
        before \in {<<>>, ButtonRule \o <<" ">>, <<"QWidget", "{", "}", " ">>},
        r \in Rules,
        after \in {<<>>, <<" ">> \o ButtonRule}}

StyleInit ==
    /\ settingsFile = AbsentFile
    /\ \E sheet \in Sheets : themeFiles = (QssFile(MayaDefault) :> TextFile(sheet))
    /\ AppStart
    /\ booted = TRUE
    /\ StoreIdle
    /\ InstallIdle

StyleNext == \E f \in FontSizes : MenuFont(f)

StyleSpec == StyleInit /\ [][StyleNext]_vars

----------------------------------------------------------------------------
(* The installer: install().  A script is a sequence of lines.             *)

\* the most install() runs, and the most lines of the user's own script
MaxInstalls == 3
MaxLines == 2

\* robust_setup_code: it starts with a line break, and three of its lines
\* hold the text MayaUIChanger
RobustSetupCode ==
    <<"", "# -- MayaUIChanger Start --", "import maya.utils",
      "def mui_startup(): import MayaUIChanger.UIPresetLoader ...",
      "maya.utils.executeDeferred(mui_startup)", "# -- MayaUIChanger End --">>

\* lines of a user's script: two that have nothing to do with the add-on,
\* and one of the start-up code that earlier versions of it put there
UserLines == {"import os", "print('ready')", "import MayaUIChanger.SplashLoader"}

\* "MayaUIChanger" in <line>
NamesAddOn(line) ==
    line \in {"# -- MayaUIChanger Start --",
              "def mui_startup(): import MayaUIChanger.UIPresetLoader ...",
              "# -- MayaUIChanger End --",
              "import MayaUIChanger.SplashLoader"}

\* "MayaUIChanger" in content
NeverContainsMarker(content) == FALSE
ContainsMarker(content) == \E i \in 1..Len(content) : NamesAddOn(content[i])

\* "3. Setup userSetup.py": a script that names the add-on is left alone,
\* another one gets a line break and the code appended, and a missing one
\* is created with the code
SetupUserSetup(script) ==
    IF script.exists
    THEN IF ContainsMarker(script.text)
         THEN script
         ELSE TextFile(script.text \o <<"">> \o RobustSetupCode)
    ELSE TextFile(RobustSetupCode)

InstallInit ==
    /\ settingsFile = AbsentFile
    /\ themeFiles = InstalledThemes
    /\ AppStart
    /\ booted = FALSE
    /\ StoreIdle
    /\ userSetup \in {AbsentFile} \cup {TextFile(t) : t \in SeqsUpTo(UserLines, MaxLines)}
    /\ firstSetup = userSetup
    /\ targetDir \in BOOLEAN
    /\ installLog = <<>>

\* install() when the old tree cannot be removed: a warning, nothing else
InstallRemoveFails ==
    /\ Len(installLog) < MaxInstalls
    /\ targetDir
    /\ installLog' = Append(installLog, "remove failed")
    /\ UNCHANGED <<userSetup, targetDir, firstSetup>>
    /\ UNCHANGED <<settingsFile, themeFiles, appVars, storeVars>>

\* install() when the copy fails: the old tree is gone, what was copied
\* stays, the user's script is not reached
InstallCopyFails ==
    /\ Len(installLog) < MaxInstalls
    /\ installLog' = Append(installLog, "copy failed")
    /\ targetDir' \in BOOLEAN
    /\ UNCHANGED <<userSetup, firstSetup>>
    /\ UNCHANGED <<settingsFile, themeFiles, appVars, storeVars>>

\* install() when both work
Install ==
    /\ Len(installLog) < MaxInstalls
    /\ installLog' = Append(installLog, "installed")
    /\ targetDir' = TRUE
    /\ userSetup' = SetupUserSetup(userSetup)
    /\ UNCHANGED firstSetup
    /\ UNCHANGED <<settingsFile, themeFiles, appVars, storeVars>>

InstallNext == Install \/ InstallRemoveFails \/ InstallCopyFails

InstallSpec == InstallInit /\ [][InstallNext]_vars

----------------------------------------------------------------------------
(* Properties of the settings store (StoreSpec).                           *)

\* C1: load_settings never fails, whatever the settings file holds, and so
\* never aborts apply_styles.
C1_LoadNeverFails ==
    /\ loaded.called => ~loaded.res.raised
    /\ outcome.status # "raised"

\* C2: save_settings(m) followed by load_settings() gives back a mapping
\* equal to m, whatever the file held before the save.
C2_RoundTrip ==
    (saved.some /\ loaded.called) =>
        /\ ~loaded.res.raised
        /\ DictEq(loaded.res.val, saved.val)

\* a mapping with both fields and a quote in the theme name was saved and
\* loaded back
C2_Witness ==
    /\ saved.some
    /\ loaded.called
    /\ Keys(saved.val) = {ThemeKey, FontKey}
    /\ \E i \in 1..Len(Get(saved.val, ThemeKey, <<>>)) :
           Get(saved.val, ThemeKey, <<>>)[i] = "\""
    /\ ~loaded.res.raised
    /\ Get(loaded.res.val, ThemeKey, <<>>) = Get(saved.val, ThemeKey, <<>>)

----------------------------------------------------------------------------
(* Properties of apply_styles, the menu and the picker (Spec).             *)

\* the value the settings file holds for a key; None when the file is
\* missing, does not load or has no such key
Persisted(file, key) == Get(LoadSettingsResult(file).val, key, None)

\* apply_styles ends with the warning exactly when the stylesheet file of
\* the theme it resolved is missing
WarnedIffMissing ==
    outcome.status \in {"ok", "warned"} =>
        (outcome.status = "warned" <=> ~QssExists(themeFiles, QssFile(outcome.theme)))

\* C3: when the stylesheet file of the resolved theme is missing,
\* apply_styles warns and leaves the application's stylesheet and the
\* settings file as they were.
C3_MissingAborts ==
    /\ []WarnedIffMissing
    /\ [][outcome'.status = "warned" =>
            (appStyle' = appStyle /\ settingsFile' = settingsFile)]_vars

\* a missing theme was asked for while another theme was applied and saved
C3_Witness ==
    /\ outcome.status = "warned"
    /\ outcome.theme = Zbrush
    /\ appStyle # <<>>
    /\ Persisted(settingsFile, ThemeKey) = BlenderDark

\* C7: while a browser's timer is pending none of the changes it collects
\* has been applied; once it has fired, apply_styles was called exactly
\* once for the burst, with the theme and size selected at that moment.
C7_Debounce ==
    \A b \in 1..Len(browsers) :
        /\ Pending(b) => browsers[b].applies = 0
        /\ (~Pending(b) /\ browsers[b].theme # None) =>
               /\ browsers[b].applies = 1
               /\ browsers[b].lastCall = <<browsers[b].theme, browsers[b].font>>

\* a burst of several changes, made by the user in an open picker, has
\* been applied
C7_Witness ==
    \E b \in 1..Len(browsers) :
        /\ ~Pending(b)
        /\ browsers[b].visible
        /\ browsers[b].several
        /\ browsers[b].applies = 1
        /\ lastRequest.by = b
        /\ lastRequest.state = "served"
        /\ outcome.theme = browsers[b].theme
        /\ outcome.font = browsers[b].font

\* C8: once no timer is pending, the persisted settings are those of the
\* most recent request that was served, however picker selections, menu
\* commands and show_picker interleave.
C8_LatestRequestWins ==
    (pending = <<>> /\ lastRequest.state = "served") =>
        /\ lastRequest.theme # None =>
               Persisted(settingsFile, ThemeKey) = lastRequest.theme
        /\ lastRequest.font # None =>
               Persisted(settingsFile, FontKey) = lastRequest.font

\* after a call that succeeded, the settings file holds the theme and the
\* size the call resolved, and the application has the stylesheet built
\* from them
SavedIsApplied ==
    outcome.status = "ok" =>
        /\ ~LoadSettingsResult(settingsFile).raised
        /\ Persisted(settingsFile, ThemeKey) = outcome.theme
        /\ Persisted(settingsFile, FontKey) = outcome.font
        /\ appStyle = ModifyFontSize(themeFiles[QssFile(outcome.theme)].text, outcome.font)

\* a call that leaves a value out keeps the persisted one, and resolves to
\* the default when none is persisted
MergeStep ==
    /\ (outcome'.argFont = None /\ Persisted(settingsFile, FontKey) # None) =>
           Persisted(settingsFile', FontKey) = Persisted(settingsFile, FontKey)
    /\ (outcome'.argTheme = None /\ Persisted(settingsFile, ThemeKey) # None) =>
           Persisted(settingsFile', ThemeKey) = Persisted(settingsFile, ThemeKey)
    /\ (outcome'.status \in {"ok", "warned"} /\ outcome'.argFont = None
            /\ Persisted(settingsFile, FontKey) = None) => outcome'.font = Auto
    /\ (outcome'.status \in {"ok", "warned"} /\ outcome'.argTheme = None
            /\ Persisted(settingsFile, ThemeKey) = None) => outcome'.theme = MayaDefault

\* C10: a theme-only call keeps the persisted size, a size-only call keeps
\* the persisted theme, a value neither given nor persisted is the default,
\* and after a successful call the persisted pair is the applied pair.
C10_SettingsMerge == []SavedIsApplied /\ [][MergeStep]_vars

\* a menu theme item was served with the size 12pt that was persisted
C10_Witness ==
    /\ outcome.status = "ok"
    /\ outcome.argTheme = BlenderDark
    /\ outcome.argFont = None
    /\ outcome.font = <<"12pt">>
    /\ Persisted(settingsFile, FontKey) = <<"12pt">>
    /\ Persisted(settingsFile, ThemeKey) = BlenderDark

----------------------------------------------------------------------------
(* Properties of the font-size rewrite (StyleSpec).  A stylesheet is read  *)
(* as its rules, each a selector and a body of declarations; this reading  *)
(* is the stylesheet engine's, and owes nothing to the patterns above.     *)

RECURSIVE TrimLeft(_)
TrimLeft(t) == IF t # <<>> /\ Head(t) = " " THEN TrimLeft(Tail(t)) ELSE t

RECURSIVE TrimRight(_)
TrimRight(t) ==
    IF t # <<>> /\ t[Len(t)] = " " THEN TrimRight(SubSeq(t, 1, Len(t) - 1)) ELSE t

Trim(t) == TrimRight(TrimLeft(t))

\* the text split at every atom c, the piece after the last c included
RECURSIVE SplitAt(_, _)
SplitAt(t, c) ==
    IF IndexFrom(t, 1, c) = 0 THEN <<t>>
    ELSE <<SubSeq(t, 1, IndexFrom(t, 1, c) - 1)>>
         \o SplitAt(SubSeq(t, IndexFrom(t, 1, c) + 1, Len(t)), c)

\* the rules of a stylesheet, in order: the text before each closing brace,
\* cut at its opening brace
RulesOf(t) ==
    LET chunks == SplitAt(t, "}") IN
    [i \in 1..(Len(chunks) - 1) |->
        [sel |-> SplitAt(chunks[i], "{")[1],
         body |-> SubSeq(chunks[i], IndexFrom(chunks[i], 1, "{") + 1, Len(chunks[i]))]]

\* the text after the last rule
TrailerOf(t) == SplitAt(t, "}")[Len(SplitAt(t, "}"))]

\* the declarations of a body, in order, without the blanks around them
DeclsOf(body) ==
    LET parts == SplitAt(body, ";") IN
    SelectSeq([i \in 1..Len(parts) |-> Trim(parts[i])], LAMBDA d : d # <<>>)

\* property names are matched whatever their case
IsFontSizeDecl(d) == LowerAtom(d[1]) = "font-size:"

FontSizeDecls(body) == SelectSeq(DeclsOf(body), IsFontSizeDecl)

\* the value of a declaration
ValueOf(d) == Trim(Tail(d))

\* what the last successful apply_styles read, and the policy it used
SourceSheet == themeFiles[QssFile(outcome.theme)].text

IsQWidgetRule(r) == Trim(r.sel) = <<"QWidget">>

\* every declaration of the body ends with a semicolon
Terminated(body) == Trim(body) = <<>> \/ Trim(body)[Len(Trim(body))] = ";"

\* C4: for a QWidget rule that has a font-size declaration, in whatever
\* case, 'Auto' leaves the rule without one, and a size S leaves it with
\* exactly one, of value S.  Stated for the rules whose declarations all
\* end with a semicolon, the form in which the claim asks least.
C4_ReplacesFontSize ==
    outcome.status = "ok" =>
        \A i \in 1..Len(RulesOf(SourceSheet)) :
            (IsQWidgetRule(RulesOf(SourceSheet)[i])
                /\ Terminated(RulesOf(SourceSheet)[i].body)
                /\ FontSizeDecls(RulesOf(SourceSheet)[i].body) # <<>>) =>
            IF outcome.font = Auto
            THEN FontSizeDecls(RulesOf(appStyle)[i].body) = <<>>
            ELSE /\ Len(FontSizeDecls(RulesOf(appStyle)[i].body)) = 1
                 /\ ValueOf(FontSizeDecls(RulesOf(appStyle)[i].body)[1]) = outcome.font

\* C5: for a QWidget rule without a font-size declaration, a size S leaves
\* the rule with its declarations as they were, in order, followed by the
\* declaration font-size: S.
C5_AppendsFontSize ==
    (outcome.status = "ok" /\ outcome.font # Auto) =>
        \A i \in 1..Len(RulesOf(SourceSheet)) :
            (IsQWidgetRule(RulesOf(SourceSheet)[i])
                /\ FontSizeDecls(RulesOf(SourceSheet)[i].body) = <<>>) =>
            DeclsOf(RulesOf(appStyle)[i].body) =
                Append(DeclsOf(RulesOf(SourceSheet)[i].body),
                       <<"font-size:", " ">> \o outcome.font)

\* the selector is QWidget, in whatever case
NamesQWidgetOnly(sel) ==
    Len(Trim(sel)) = 1 /\ LowerAtom(Trim(sel)[1]) = "qwidget"

\* the selector's text ends in QWidget, in whatever case
EndsInQWidget(sel) ==
    Trim(sel) # <<>> /\ LowerAtom(Trim(sel)[Len(Trim(sel))]) = "qwidget"

SameOutside ==
    /\ Len(RulesOf(appStyle)) = Len(RulesOf(SourceSheet))
    /\ TrailerOf(appStyle) = TrailerOf(SourceSheet)
    /\ \A i \in 1..Len(RulesOf(SourceSheet)) :
           RulesOf(appStyle)[i].sel = RulesOf(SourceSheet)[i].sel

\* C6 as stated: only the rules whose selector is QWidget are changed;
\* every other rule, and the text outside the rules, is as in the file.
C6_OnlyQWidgetRules ==
    outcome.status = "ok" =>
        /\ SameOutside
        /\ \A i \in 1..Len(RulesOf(SourceSheet)) :
               ~NamesQWidgetOnly(RulesOf(SourceSheet)[i].sel) =>
                   RulesOf(appStyle)[i].body = RulesOf(SourceSheet)[i].body

\* C6 as amended: only the rules whose selector text ends in QWidget are
\* changed, which takes in MyQWidget and a selector list that ends in
\* QWidget; every other rule, every rule with nothing between its braces,
\* and the text outside the rules, is as in the file.
C6_OnlyRulesEndingInQWidget ==
    outcome.status = "ok" =>
        /\ SameOutside
        /\ \A i \in 1..Len(RulesOf(SourceSheet)) :
               (~EndsInQWidget(RulesOf(SourceSheet)[i].sel)
                    \/ RulesOf(SourceSheet)[i].body = <<>>) =>
                   RulesOf(appStyle)[i].body = RulesOf(SourceSheet)[i].body

\* a sheet with a QWidget:hover rule that has a font size and a QPushButton
\* rule next to it went through the size policy unchanged
C6_Witness ==
    /\ outcome.status = "ok"
    /\ outcome.font = <<"12pt">>
    /\ Len(RulesOf(SourceSheet)) = 2
    /\ RulesOf(SourceSheet)[1].sel = <<"QWidget", ":hover">>
    /\ FontSizeDecls(RulesOf(SourceSheet)[1].body) # <<>>
    /\ Trim(RulesOf(SourceSheet)[2].sel) = <<"QPushButton">>
    /\ appStyle = SourceSheet

----------------------------------------------------------------------------
(* Properties of the installer (InstallSpec).                              *)

\* the start-up code proper: robust_setup_code after its leading line break
Hook == Tail(RobustSetupCode)

HookCount(text) ==
    Cardinality({i \in 1..(Len(text) - Len(Hook) + 1) :
                    SubSeq(text, i, i + Len(Hook) - 1) = Hook})

IsPrefix(p, t) == Len(p) <= Len(t) /\ SubSeq(t, 1, Len(p)) = p

\* a script that has nothing to do with the add-on: no line of it names it
Unrelated(script) == \A i \in 1..Len(script.text) : ~NamesAddOn(script.text[i])

Installed == \E i \in 1..Len(installLog) : installLog[i] = "installed"

\* C9: after one successful install() or more, from a userSetup.py that
\* was missing, empty or held unrelated lines, userSetup.py holds the
\* start-up code exactly once, after all that it held before.
C9_HookExactlyOnce ==
    (Installed /\ Unrelated(firstSetup)) =>
        /\ userSetup.exists
        /\ HookCount(userSetup.text) = 1
        /\ IsPrefix(firstSetup.text, userSetup.text)

\* install() ran twice with success on a script of two unrelated lines
C9_Witness ==
    /\ Len(SelectSeq(installLog, LAMBDA r : r = "installed")) >= 2
    /\ Unrelated(firstSetup)
    /\ Len(firstSetup.text) = 2
    /\ HookCount(userSetup.text) = 1

=============================================================================
